---- MODULE Spec2Model ----
(***************************************************************************)
(* Band data normalisation of src/js/bands/bands.js: processBandData and   *)
(* the helpers it calls (setTaxids, setChromosomesByTaxid,                 *)
(* setChrsByTaxidsWithBands, getBandsArray), run on the shared context     *)
(* object `ideo`.  One invocation is a sequence of steps: the prologue     *)
(* (taxon resolution and the copy of the chromosome list), one step per    *)
(* taxon, one step per chromosome, and the return.  A TypeError raised by  *)
(* the JavaScript ends the invocation in pc = "threw".                     *)
(***************************************************************************)
EXTENDS Integers, Sequences, FiniteSets, TLC

\* ------------------------------------------------------------------ bounds
MaxTaxids == 2      \* longest config.taxids list
MaxChrs == 2        \* most chromosomes per taxon / configured list entries

\* ------------------------------------------------------------ value domains
\* typeof x === 'undefined' : the value of a property that was never set
Undefined == 0

\* NCBI taxonomy ids (human, mouse); far larger than any chromosome list.
TaxIds == {9606, 10090}

\* Chromosome names as UTF-16 code unit sequences.
chr2 == <<99, 104, 114, 50>>
chr10 == <<99, 104, 114, 49, 48>>
chrX == <<99, 104, 114, 88>>
Names == {chr2, chr10, chrX}

Max(S) == CHOOSE x \in S : \A y \in S : y <= x

\* --------------------------------------------------------- JavaScript values
\* An array: its dense prefix `list` (indices 0..Len-1, kept 1-based here) and
\* the elements assigned at larger indices `props` (index -> value).  A plain
\* object has the same shape with an empty list.
NoProps == [t \in {} |-> Undefined]
Arr(list) == [tag |-> "array", list |-> list, props |-> NoProps]
Obj(props) == [tag |-> "object", list |-> <<>>, props |-> props]
Absent == [tag |-> "absent", list |-> <<>>, props |-> NoProps]
Null == [tag |-> "null", list |-> <<>>, props |-> NoProps]

\* Array.prototype.length : one more than the largest index present.
ArrLength(a) ==
  IF DOMAIN a.props = {} THEN Len(a.list)
  ELSE LET top == Max(DOMAIN a.props) + 1
       IN IF top > Len(a.list) THEN top ELSE Len(a.list)

\* Array.prototype.slice() : a shallow copy, always a true array.
Slice(a) == [tag |-> "array", list |-> a.list, props |-> a.props]

\* The assignment made on a fresh object, whatever config.chromosomes held.
SetPropFresh(o, key, value) ==
  [tag |-> "object", list |-> <<>>, props |-> [t \in {key} |-> value]]

\* obj[key] = value, for a key beyond the dense prefix.
SetProp(o, key, value) ==
  [o EXCEPT !.props = [t \in (DOMAIN o.props) \cup {key} |->
                         IF t = key THEN value ELSE o.props[t]]]

\* ------------------------------------------------------------- band records
\* A list of n contiguous bands, starting at 0 and ending at iscn stop i and
\* bp stop b (n <= i, n <= b).
MkBands(n, i, b) ==
  [m \in 1..n |->
     [iscn |-> [start |-> IF m = 1 THEN 0 ELSE i - (n - m) - 1,
                stop |-> i - (n - m)],
      bp |-> [start |-> IF m = 1 THEN 0 ELSE b - (n - m) - 1,
              stop |-> b - (n - m)]]]

\* The band lists in use: a one-band chromosome, short in iscn and long in bp,
\* and a two-band chromosome, long in iscn and short in bp.
BandLists == {MkBands(1, 1, 3), MkBands(2, 2, 2)}

\* The chromosome-name -> band-list mappings a parser can hand back.
ParsedMaps ==
  UNION {[S -> BandLists] : S \in {T \in SUBSET Names : Cardinality(T) <= MaxChrs}}

\* parseBands(bandData, taxid, chrs) of ./parse: the mapping for the taxon.
parseBands(bandData, taxid, chrs) == bandData[taxid]


\* ------------------------------------------------------------- natural sort
IsDigit(c) == c \in 48..57

\* Length of the leading run of s whose characters are digits (d) or not.
RECURSIVE LeadLen(_, _)
LeadLen(s, d) ==
  IF s = <<>> \/ IsDigit(Head(s)) # d THEN 0 ELSE 1 + LeadLen(Tail(s), d)

RECURSIVE NumVal(_)
NumVal(s) ==
  IF s = <<>> THEN 0
  ELSE NumVal(SubSeq(s, 1, Len(s) - 1)) * 10 + (s[Len(s)] - 48)

\* Comparison of two strings by UTF-16 code units: what Array.prototype.sort
\* does without a comparator.
RECURSIVE codeUnitCompare(_, _)
codeUnitCompare(a, b) ==
  IF a = <<>> /\ b = <<>> THEN 0
  ELSE IF a = <<>> THEN -1
  ELSE IF b = <<>> THEN 1
  ELSE IF Head(a) < Head(b) THEN -1
  ELSE IF Head(a) > Head(b) THEN 1
  ELSE codeUnitCompare(Tail(a), Tail(b))

\* naturalSort(a, b) of es6-natural-sort: the strings are cut into runs of
\* digits and runs of other characters and compared run by run; two digit
\* runs compare as numbers, a digit run sorts before a text run, two text
\* runs compare by code units.
RECURSIVE naturalSort(_, _)
naturalSort(a, b) ==
  IF a = <<>> /\ b = <<>> THEN 0
  ELSE IF a = <<>> THEN -1
  ELSE IF b = <<>> THEN 1
  ELSE LET da == IsDigit(Head(a))
           db == IsDigit(Head(b))
           la == LeadLen(a, da)
           lb == LeadLen(b, db)
           ca == SubSeq(a, 1, la)
           cb == SubSeq(b, 1, lb)
           ra == SubSeq(a, la + 1, Len(a))
           rb == SubSeq(b, lb + 1, Len(b))
       IN IF da /\ db
          THEN IF NumVal(ca) < NumVal(cb) THEN -1
               ELSE IF NumVal(ca) > NumVal(cb) THEN 1
               ELSE naturalSort(ra, rb)
          ELSE IF da # db THEN (IF da THEN -1 ELSE 1)
          ELSE IF codeUnitCompare(ca, cb) # 0 THEN codeUnitCompare(ca, cb)
          ELSE naturalSort(ra, rb)

\* Object.keys(bandsByChr).sort() without the comparator.
sortedKeysDefault(bandsByChr) ==
  LET S == DOMAIN bandsByChr
  IN [i \in 1..Cardinality(S) |->
        CHOOSE x \in S :
          Cardinality({y \in S : codeUnitCompare(y, x) < 0}) = i - 1]

\* chrs = Object.keys(bandsByChr).sort(function(a, b) {return naturalSort(a, b);})
\* The keys are distinct and the comparator orders them strictly, so the
\* result does not depend on the order the keys came in: each key lands
\* after the keys that compare below it.
sortedKeys(bandsByChr) ==
  LET S == DOMAIN bandsByChr
  IN [i \in 1..Cardinality(S) |->
        CHOOSE x \in S :
          Cardinality({y \in S : naturalSort(y, x) < 0}) = i - 1]

\* -------------------------------------------------------------------- state
VARIABLES
  config,            \* ideo.config: multiorganism, taxid, taxids, chromosomes
  coordinateSystem,  \* ideo.coordinateSystem
  numChromosomes,    \* ideo.numChromosomes
  maxLength,         \* ideo.maxLength: global bp/iscn and the per-taxon entries
  bandData,          \* ideo.bandData, as the parser reads it: taxid -> mapping
  pc,                \* where the invocation stands
  taxids,            \* processBandData's local taxids
  chrs,              \* processBandData's local chrs
  j,                 \* index of the taxon loop (1-based)
  k,                 \* index of the chromosome loop
  chrsSorted,        \* setChrsByTaxidsWithBands' local chrs after the sort
  bandsArray,        \* the band sequence under construction
  result,            \* what the last completed invocation returned
  invocation,        \* 1 during the first invocation, 2 during the second
  config0,           \* history: ideo.config before the first invocation
  first,             \* history: the context when the first invocation returned
  paths,             \* history: <<taxid, path>> per taxon assembled this invocation
  maxBefore          \* history: ideo.maxLength before the last chromosome processed

vars == <<config, coordinateSystem, numChromosomes, maxLength, bandData, pc,
          taxids, chrs, j, k, chrsSorted, bandsArray, result, invocation,
          config0, first, paths, maxBefore>>

Range(s) == {s[i] : i \in DOMAIN s}

SeqsUpTo(S, n) == UNION {[1..m -> S] : m \in 0..n}

\* Entries of a configured chromosome list, by their `length` property.
ChrEntries == [length : {1, 2}]

\* ------------------------------------------------------------ the functions
\* setTaxids taking the first listed taxon even when config.taxid is set.
setTaxidsFirstListed(cfg, cs) ==
  IF cfg.multiorganism = TRUE
  THEN [config |-> cfg, coordinateSystem |-> "bp",
        taxid |-> IF cfg.taxids = <<>> THEN Undefined
                  ELSE cfg.taxids[Len(cfg.taxids)],
        taxids |-> cfg.taxids]
  ELSE LET t == IF cfg.taxids # <<>> THEN cfg.taxids[1] ELSE cfg.taxid
       IN [config |-> [cfg EXCEPT !.taxid = t, !.taxids = <<t>>],
           coordinateSystem |-> cs, taxid |-> t, taxids |-> <<t>>]

\* setTaxids(ideo): the context after the call and the pair it returns.
setTaxids(cfg, cs) ==
  IF cfg.multiorganism = TRUE
  THEN [config |-> cfg, coordinateSystem |-> "bp",
        taxid |-> IF cfg.taxids = <<>> THEN Undefined
                  ELSE cfg.taxids[Len(cfg.taxids)],
        taxids |-> cfg.taxids]
  ELSE LET t == IF cfg.taxid = Undefined THEN cfg.taxids[1] ELSE cfg.taxid
       IN [config |-> [cfg EXCEPT !.taxid = t, !.taxids = <<t>>],
           coordinateSystem |-> cs, taxid |-> t, taxids |-> <<t>>]

\* chrLength of getBandsArray, reading the first band instead of the last.
chrLengthFirst(bands) == [iscn |-> bands[1].iscn.stop, bp |-> bands[1].bp.stop]

\* chrLength of getBandsArray: the stops of the last band.
chrLength(bands) ==
  [iscn |-> bands[Len(bands)].iscn.stop, bp |-> bands[Len(bands)].bp.stop]

\* The maxLength updates of getBandsArray with the global update outside the
\* per-taxon test's branch dropped.
updateMaxLengthNoGlobal(ml, taxid, len) ==
  LET cur == IF taxid \in DOMAIN ml.byTaxid THEN ml.byTaxid[taxid]
             ELSE [bp |-> 0, iscn |-> 0]
      new == [iscn |-> IF len.iscn > cur.iscn THEN len.iscn ELSE cur.iscn,
              bp |-> IF len.bp > cur.bp THEN len.bp ELSE cur.bp]
  IN [ml EXCEPT !.byTaxid = [t \in (DOMAIN ml.byTaxid) \cup {taxid} |->
                               IF t = taxid THEN new ELSE ml.byTaxid[t]]]

\* The maxLength updates of getBandsArray.
updateMaxLength(ml, taxid, len) ==
  LET cur == IF taxid \in DOMAIN ml.byTaxid THEN ml.byTaxid[taxid]
             ELSE [bp |-> 0, iscn |-> 0]
      upI == len.iscn > cur.iscn
      upB == len.bp > cur.bp
      new == [iscn |-> IF upI THEN len.iscn ELSE cur.iscn,
              bp |-> IF upB THEN len.bp ELSE cur.bp]
  IN [iscn |-> IF upI /\ len.iscn > ml.iscn THEN len.iscn ELSE ml.iscn,
      bp |-> IF upB /\ len.bp > ml.bp THEN len.bp ELSE ml.bp,
      byTaxid |-> [t \in (DOMAIN ml.byTaxid) \cup {taxid} |->
                     IF t = taxid THEN new ELSE ml.byTaxid[t]]]

\* getBandsArray(chromosome, bandsByChr, taxid, ideo): the one-element array
\* it returns and ideo.maxLength after it.
getBandsArray(chromosome, bandsByChr, taxid, ml) ==
  LET bands == bandsByChr[chromosome]
  IN [bandsArray |-> <<bands>>,
      maxLength |-> updateMaxLength(ml, taxid, chrLength(bands))]

\* The path test with the multi-organism disjunct dropped.
bandedByCoordinateSystem(cfg, cs) == cs = "iscn"

\* ideo.coordinateSystem === 'iscn' || ideo.config.multiorganism
banded(cfg, cs) == cs = "iscn" \/ cfg.multiorganism

\* The count written with = in place of +=.
setChromosomes(n, stored) == ArrLength(stored)

\* The count incremented once per list instead of by the list's length.
addOne(n, stored) == n + 1

\* ideo.numChromosomes += ideo.config.chromosomes[taxid].length
addChromosomes(n, stored) == n + ArrLength(stored)

\* The bp maximum overwritten by every chromosome, without the comparison.
updateMaxBpLast(ml, len) == [ml EXCEPT !.bp = len]

\* if (chr.length > ideo.maxLength.bp) ideo.maxLength.bp = chr.length
updateMaxBp(ml, len) == IF len > ml.bp THEN [ml EXCEPT !.bp = len] ELSE ml

\* chrs[k] exists (k counted from 0, as in the source).
HasElement(a, k0) == k0 < Len(a.list) \/ k0 \in DOMAIN a.props

\* chrs[k].length
LengthAt(a, k0) ==
  IF k0 < Len(a.list) THEN a.list[k0 + 1].length ELSE ArrLength(a.props[k0])

\* ------------------------------------------------------------------ actions
ClearLocals ==
  /\ j' = 1
  /\ k' = 0
  /\ chrsSorted' = <<>>

\* processBandData, lines 146-164: bandsArray = [], setTaxids, the copy of
\* config.chromosomes.  null.slice() and {}.slice() raise a TypeError.
Prologue ==
  /\ LET r == setTaxids(config, coordinateSystem)
         c == r.config.chromosomes
     IN /\ config' = r.config
        /\ coordinateSystem' = r.coordinateSystem
        /\ taxids' = r.taxids
        /\ IF c.tag = "absent"
           THEN chrs' = Absent /\ pc' = "taxa"
           ELSE IF r.config.multiorganism
           THEN chrs' = c /\ pc' = "taxa"
           ELSE IF c.tag = "array"
           THEN chrs' = Slice(c) /\ pc' = "taxa"
           ELSE chrs' = Absent /\ pc' = "threw"
  /\ bandsArray' = <<>>
  /\ paths' = <<>>
  /\ ClearLocals
  /\ UNCHANGED <<numChromosomes, maxLength, bandData, result, config0, first,
                 maxBefore>>

\* The invocation of processBandData on the freshly constructed context.
Enter ==
  /\ pc = "idle"
  /\ invocation' = 1
  /\ Prologue

\* A second invocation on the same context, after the first one ended.
Again ==
  /\ pc \in {"returned", "threw"}
  /\ invocation = 1
  /\ invocation' = 2
  /\ Prologue

\* setChromosomesByTaxid -> setChrsByTaxidsWithBands, lines 85-103: parse,
\* sort the names, store them under the taxon, count them.
WithBands ==
  /\ pc = "taxa"
  /\ j <= Len(taxids)
  /\ banded(config, coordinateSystem)
  /\ LET taxid == taxids[j]
         bandsByChr == parseBands(bandData, taxid, chrs)
         sorted == sortedKeys(bandsByChr)
         base == IF config.chromosomes.tag \in {"absent", "null"}
                 THEN Obj(NoProps) ELSE config.chromosomes
         stored == SetProp(base, taxid, Slice(Arr(sorted)))
     IN /\ config' = [config EXCEPT !.chromosomes = stored]
        /\ chrs' = IF config.multiorganism /\ chrs.tag \in {"object", "array"}
                   THEN stored ELSE chrs
        /\ numChromosomes' = addChromosomes(numChromosomes, stored.props[taxid])
        /\ chrsSorted' = sorted
        /\ paths' = Append(paths, <<taxid, "banded">>)
        /\ IF sorted = <<>>
           THEN j' = j + 1 /\ k' = 0 /\ pc' = "taxa"
           ELSE j' = j /\ k' = 1 /\ pc' = "chrs"
  /\ UNCHANGED <<coordinateSystem, maxLength, bandData, taxids, bandsArray,
                 result, invocation, config0, first, maxBefore>>

\* One pass of the loop of lines 105-109: getBandsArray and the concat.
BandsOfChromosome ==
  /\ pc = "chrs"
  /\ LET taxid == taxids[j]
         r == getBandsArray(chrsSorted[k], parseBands(bandData, taxid, chrs),
                            taxid, maxLength)
     IN /\ bandsArray' = bandsArray \o r.bandsArray
        /\ maxLength' = r.maxLength
        /\ maxBefore' = maxLength
  /\ IF k < Len(chrsSorted)
     THEN k' = k + 1 /\ j' = j /\ pc' = "chrs"
     ELSE k' = 0 /\ j' = j + 1 /\ pc' = "taxa"
  /\ UNCHANGED <<config, coordinateSystem, numChromosomes, bandData, taxids,
                 chrs, chrsSorted, result, invocation, config0, first, paths>>

\* setChromosomesByTaxid, lines 119-122: the configured list is stored under
\* the taxon and counted.  undefined.slice() raises a TypeError.
WithoutBands ==
  /\ pc = "taxa"
  /\ j <= Len(taxids)
  /\ ~banded(config, coordinateSystem)
  /\ coordinateSystem = "bp"
  /\ IF chrs.tag # "array"
     THEN /\ pc' = "threw"
          /\ paths' = Append(paths, <<taxids[j], "unbanded">>)
          /\ UNCHANGED <<config, numChromosomes, j, k>>
     ELSE LET taxid == taxids[j]
              stored == SetProp(config.chromosomes, taxid, Slice(chrs))
          IN /\ config' = [config EXCEPT !.chromosomes = stored]
             /\ numChromosomes' = addChromosomes(numChromosomes, stored.props[taxid])
             /\ paths' = Append(paths, <<taxid, "unbanded">>)
             /\ IF ArrLength(chrs) = 0
                THEN j' = j + 1 /\ k' = 0 /\ pc' = "taxa"
                ELSE j' = j /\ k' = 0 /\ pc' = "lens"
  /\ UNCHANGED <<coordinateSystem, maxLength, bandData, taxids, chrs,
                 chrsSorted, bandsArray, result, invocation, config0, first,
                 maxBefore>>

\* One pass of the loop of lines 124-127.  Reading .length of a hole of the
\* array (undefined) raises a TypeError.
LengthOfChromosome ==
  /\ pc = "lens"
  /\ IF ~HasElement(chrs, k)
     THEN /\ pc' = "threw"
          /\ UNCHANGED <<maxLength, maxBefore, j, k>>
     ELSE /\ maxLength' = updateMaxBp(maxLength, LengthAt(chrs, k))
          /\ maxBefore' = maxLength
          /\ IF k + 1 < ArrLength(chrs)
             THEN k' = k + 1 /\ j' = j /\ pc' = "lens"
             ELSE k' = 0 /\ j' = j + 1 /\ pc' = "taxa"
  /\ UNCHANGED <<config, coordinateSystem, numChromosomes, bandData, taxids,
                 chrs, chrsSorted, bandsArray, result, invocation, config0,
                 first, paths>>

\* processBandData, lines 166-171: the taxon loop is over, bandsArray is
\* returned.
Return ==
  /\ pc = "taxa"
  /\ j > Len(taxids)
  /\ pc' = "returned"
  /\ result' = bandsArray
  /\ first' = IF invocation = 1
              THEN [done |-> TRUE, numChromosomes |-> numChromosomes,
                    maxLength |-> maxLength, chromosomes |-> config.chromosomes,
                    result |-> bandsArray]
              ELSE first
  /\ UNCHANGED <<config, coordinateSystem, numChromosomes, maxLength, bandData,
                 taxids, chrs, j, k, chrsSorted, bandsArray, invocation,
                 config0, paths, maxBefore>>

\* ----------------------------------------------------------- specification
\* The context as the constructor leaves it (numChromosomes 0, maxLength
\* {bp: 0, iscn: 0}) with a configuration and band data drawn from the
\* bounded domains.  Band data is present for the taxa a banded run reads.
Init ==
  \E multi \in BOOLEAN, cs \in {"iscn", "bp"},
     tx \in TaxIds \cup {Undefined}, txs \in SeqsUpTo(TaxIds, MaxTaxids) :
    /\ multi => tx = Undefined
    /\ ~multi /\ tx = Undefined => txs # <<>>
    /\ ~multi /\ tx # Undefined => Len(txs) <= 1
    /\ \E c \in IF multi THEN {Absent, Null, Obj(NoProps)}
                ELSE {Absent, Null} \cup
                     {Arr(l) : l \in SeqsUpTo(ChrEntries, MaxChrs)} :
         config = [multiorganism |-> multi, taxid |-> tx, taxids |-> txs,
                   chromosomes |-> c]
    /\ coordinateSystem = cs
    /\ LET used == IF multi THEN Range(txs)
                   ELSE IF cs = "bp" THEN {}
                   ELSE {IF tx = Undefined THEN txs[1] ELSE tx}
       IN bandData \in [used -> ParsedMaps]
  /\ numChromosomes = 0
  /\ maxLength = [bp |-> 0, iscn |-> 0, byTaxid |-> NoProps]
  /\ pc = "idle"
  /\ taxids = <<>>
  /\ chrs = Absent
  /\ j = 1
  /\ k = 0
  /\ chrsSorted = <<>>
  /\ bandsArray = <<>>
  /\ result = <<>>
  /\ invocation = 1
  /\ config0 = config
  /\ first = [done |-> FALSE, numChromosomes |-> 0,
              maxLength |-> [bp |-> 0, iscn |-> 0, byTaxid |-> NoProps],
              chromosomes |-> Absent, result |-> <<>>]
  /\ paths = <<>>
  /\ maxBefore = maxLength

Next ==
  \/ Enter
  \/ WithBands
  \/ BandsOfChromosome
  \/ WithoutBands
  \/ LengthOfChromosome
  \/ Return

Spec == Init /\ [][Next]_vars

\* The same context invoked a second time.
NextAgain ==
  \/ Next
  \/ Again

SpecAgain == Init /\ [][NextAgain]_vars


\* ------------------------------------------------------- claims: vocabulary
OnBandedPath ==
  pc # "idle" /\ (config.multiorganism \/ coordinateSystem = "iscn")

OnUnbandedPath ==
  pc # "idle" /\ ~config.multiorganism /\ coordinateSystem = "bp"

\* The stop coordinates, in system c, of the last bands of taxon t's chromosomes.
ChrStops(t, c) ==
  {IF c = "iscn" THEN bandData[t][n][Len(bandData[t][n])].iscn.stop
   ELSE bandData[t][n][Len(bandData[t][n])].bp.stop : n \in DOMAIN bandData[t]}

TaxaWithChrs == {t \in Range(taxids) : DOMAIN bandData[t] # {}}

PathTaxa == [i \in DOMAIN paths |-> paths[i][1]]

\* The order the specification asks of the names in use: chr2, chr10, chrX.
Rank(name) == CASE name = chr2 -> 1 [] name = chr10 -> 2 [] name = chrX -> 3

InNaturalOrder(S) ==
  CHOOSE s \in [1..Cardinality(S) -> S] :
    \A a, b \in 1..Cardinality(S) : a < b => Rank(s[a]) < Rank(s[b])

\* The band lists of the first n taxa of the list, chromosomes in natural order.
RECURSIVE ExpectedBands(_)
ExpectedBands(n) ==
  IF n = 0 THEN <<>>
  ELSE LET t == taxids[n]
           names == InNaturalOrder(DOMAIN bandData[t])
       IN ExpectedBands(n - 1) \o [i \in DOMAIN names |-> bandData[t][names[i]]]

\* The lengths of the lists stored for the first n taxa of the list, summed.
RECURSIVE SumStored(_)
SumStored(n) ==
  IF n = 0 THEN 0
  ELSE SumStored(n - 1) + ArrLength(config.chromosomes.props[taxids[n]])

\* ------------------------------------------------------------------- claims
\* C1: on the banded path, from zero maxima, when processBandData has returned
\* each processed taxon's iscn and bp maxima equal the largest last-band stop
\* among its chromosomes, and the global maxima the largest over all taxa.
C1_MaxLengthIsTrueMaximum ==
  pc = "returned" /\ OnBandedPath =>
    /\ \A t \in TaxaWithChrs :
         /\ t \in DOMAIN maxLength.byTaxid
         /\ maxLength.byTaxid[t].iscn = Max(ChrStops(t, "iscn"))
         /\ maxLength.byTaxid[t].bp = Max(ChrStops(t, "bp"))
    /\ maxLength.iscn = Max({0} \cup UNION {ChrStops(t, "iscn") : t \in Range(taxids)})
    /\ maxLength.bp = Max({0} \cup UNION {ChrStops(t, "bp") : t \in Range(taxids)})

C1_Witness ==
  /\ pc = "returned"
  /\ OnBandedPath
  /\ TaxaWithChrs = TaxIds
  /\ \E t \in TaxIds : Cardinality(DOMAIN bandData[t]) = MaxChrs
  /\ \E t \in TaxIds : \E n \in DOMAIN bandData[t] : Len(bandData[t][n]) > 1
  /\ maxLength.byTaxid[9606].iscn < maxLength.byTaxid[10090].iscn

\* C2: from numChromosomes = 0, after every taxon processed and at the return
\* numChromosomes is the sum of the lengths of the lists stored in
\* config.chromosomes for the taxa processed so far.
C2_NumChromosomesIsSum ==
  /\ pc \in {"taxa", "returned"} => numChromosomes = SumStored(j - 1)
  /\ pc \in {"chrs", "lens"} => numChromosomes = SumStored(j)

C2_Witness ==
  /\ pc = "returned"
  /\ Len(taxids) = MaxTaxids
  /\ taxids[1] # taxids[2]
  /\ numChromosomes > MaxChrs
  /\ ArrLength(config.chromosomes.props[taxids[1]]) # ArrLength(config.chromosomes.props[taxids[2]])

\* C3: on the banded path the returned sequence holds one band list per parsed
\* chromosome, taxon after taxon in list order, and inside a taxon in natural
\* order of the names; config.chromosomes[taxid] lists the names in that order.
C3_NaturalOrder ==
  pc = "returned" /\ OnBandedPath =>
    /\ result = ExpectedBands(Len(taxids))
    /\ \A t \in Range(taxids) :
         /\ config.chromosomes.props[t].list = InNaturalOrder(DOMAIN bandData[t])
         /\ DOMAIN config.chromosomes.props[t].props = {}

C3_Witness ==
  /\ pc = "returned"
  /\ OnBandedPath
  /\ taxids = <<10090, 9606>>
  /\ config.chromosomes.props[10090].list = <<chr2, chr10>>
  /\ config.chromosomes.props[9606].list = <<chr10, chrX>>
  /\ Len(result) = 4

\* C4: in multi-organism mode coordinateSystem is 'bp' from the prologue on and
\* every taxon is nevertheless assembled by the banded path; the unbanded path
\* is taken only by a single-organism run with coordinateSystem 'bp'.
C4_MultiorganismIsBanded ==
  /\ config.multiorganism /\ pc # "idle" => coordinateSystem = "bp"
  /\ config.multiorganism => \A i \in DOMAIN paths : paths[i][2] = "banded"
  /\ config.multiorganism /\ pc = "returned" => PathTaxa = config.taxids
  /\ \A i \in DOMAIN paths :
       paths[i][2] = "unbanded" => ~config.multiorganism /\ coordinateSystem = "bp"

C4_Witness ==
  /\ config.multiorganism
  /\ pc = "returned"
  /\ coordinateSystem = "bp"
  /\ Len(paths) = MaxTaxids
  /\ \A i \in DOMAIN paths : paths[i][2] = "banded"
  /\ result # <<>>

\* C5: on the unbanded path, from maxLength.bp = 0, after the return
\* maxLength.bp is the largest length among the configured entries, and no
\* other maximum is kept: maxLength.iscn is still 0, there is no per-taxon
\* entry, and the returned band sequence is empty.
C5_UnbandedTracksBpOnly ==
  pc = "returned" /\ OnUnbandedPath =>
    /\ maxLength.bp =
         Max({0} \cup {config0.chromosomes.list[i].length :
                         i \in DOMAIN config0.chromosomes.list})
    /\ maxLength.iscn = 0
    /\ DOMAIN maxLength.byTaxid = {}
    /\ result = <<>>

C5_Witness ==
  /\ pc = "returned"
  /\ OnUnbandedPath
  /\ Len(config0.chromosomes.list) = MaxChrs
  /\ config0.chromosomes.list[1].length > config0.chromosomes.list[2].length
  /\ maxLength.bp = config0.chromosomes.list[1].length

\* C6: in single-organism mode config.taxid becomes the first listed taxon when
\* it was undefined and is kept otherwise, config.taxids and the local taxids
\* become the one-element list of it, coordinateSystem is left alone and exactly
\* that taxon is assembled; in multi-organism mode config.taxid and
\* config.taxids are unchanged and the listed taxa are assembled once each, in
\* list order.
C6_Resolved ==
  pc # "idle" =>
    IF ~config.multiorganism
    THEN /\ config.taxid = IF config0.taxid = Undefined THEN config0.taxids[1]
                           ELSE config0.taxid
         /\ config.taxids = <<config.taxid>>
         /\ taxids = <<config.taxid>>
         /\ pc = "returned" => PathTaxa = <<config.taxid>>
    ELSE /\ config.taxid = config0.taxid
         /\ config.taxids = config0.taxids
         /\ taxids = config0.taxids
         /\ pc = "returned" => PathTaxa = config0.taxids

C6_TaxonResolution ==
  /\ []C6_Resolved
  /\ [][~config.multiorganism => coordinateSystem' = coordinateSystem]_vars

C6_Witness ==
  /\ pc = "returned"
  /\ ~config.multiorganism
  /\ config0.taxid = 10090
  /\ config0.taxids = <<9606>>
  /\ PathTaxa = <<10090>>


\* Some chromosome of the running invocation has been processed to the end.
AfterChromosome ==
  \/ pc \in {"chrs", "taxa", "returned"} /\ bandsArray # <<>>
  \/ pc = "lens" /\ k > 0
  \/ pc \in {"taxa", "returned"} /\ OnUnbandedPath /\ j > 1
       /\ config0.chromosomes.list # <<>>

\* No per-taxon maximum is below what it was before the last chromosome.
PerTaxonMonotone ==
  \A t \in DOMAIN maxBefore.byTaxid :
    /\ t \in DOMAIN maxLength.byTaxid
    /\ maxLength.byTaxid[t].iscn >= maxBefore.byTaxid[t].iscn
    /\ maxLength.byTaxid[t].bp >= maxBefore.byTaxid[t].bp

\* Each global maximum is the largest per-taxon maximum present (0 if none).
GlobalIsMaxOfTaxa ==
  /\ maxLength.iscn =
       Max({0} \cup {maxLength.byTaxid[t].iscn : t \in DOMAIN maxLength.byTaxid})
  /\ maxLength.bp =
       Max({0} \cup {maxLength.byTaxid[t].bp : t \in DOMAIN maxLength.byTaxid})

\* C7 as stated: after a chromosome has been processed, on whichever path, the
\* per-taxon maxima have not decreased and each global maximum is the largest
\* per-taxon maximum present.
C7_AsStated ==
  AfterChromosome => PerTaxonMonotone /\ GlobalIsMaxOfTaxa

\* C7 amended: the same, on the banded path; the unbanded path raises the
\* global bp maximum and keeps no per-taxon maxima.
C7_BandedMaxima ==
  AfterChromosome /\ OnBandedPath => PerTaxonMonotone /\ GlobalIsMaxOfTaxa

C7_Witness ==
  /\ AfterChromosome
  /\ OnBandedPath
  /\ DOMAIN maxLength.byTaxid = TaxIds
  /\ maxBefore # maxLength
  /\ maxLength.byTaxid[9606].iscn < maxLength.iscn
  /\ maxLength.byTaxid[10090].bp < maxLength.bp

\* C8 as stated: a second invocation on the same context, with the same
\* configuration and band data, leaves numChromosomes, maxLength and
\* config.chromosomes as the first left them and returns the same sequence.
C8_AsStated ==
  pc = "returned" /\ invocation = 2 /\ first.done =>
    /\ numChromosomes = first.numChromosomes
    /\ maxLength = first.maxLength
    /\ config.chromosomes = first.chromosomes
    /\ result = first.result

\* C9 as stated: in single-organism mode the configured chromosome list is the
\* same after the call as before it: same elements, same order, same length,
\* nothing added.
C9_AsStated ==
  pc = "returned" /\ ~config.multiorganism /\ config0.chromosomes.tag = "array" =>
    config.chromosomes = config0.chromosomes

\* C9 amended: in single-organism mode the elements of the configured list
\* stay in place and in order, and one entry is added to the list itself: the
\* list stored under the taxon, at index taxid, so that the length becomes
\* taxid + 1; on the unbanded path the stored list is a copy of the original.
C9_ListKeptEntryAdded ==
  pc = "returned" /\ ~config.multiorganism /\ config0.chromosomes.tag = "array" =>
    /\ config.chromosomes.tag = "array"
    /\ config.chromosomes.list = config0.chromosomes.list
    /\ DOMAIN config.chromosomes.props = {config.taxid}
    /\ ArrLength(config.chromosomes) = config.taxid + 1
    /\ OnUnbandedPath =>
         config.chromosomes.props[config.taxid] = config0.chromosomes

C9_Witness ==
  /\ pc = "returned"
  /\ ~config.multiorganism
  /\ OnBandedPath
  /\ config0.chromosomes.tag = "array"
  /\ Len(config0.chromosomes.list) = MaxChrs
  /\ config.chromosomes.props[config.taxid].list # <<>>

\* A taxon of the banded path whose parsed mapping is empty is about to be
\* assembled.
AtEmptyTaxon ==
  /\ pc = "taxa"
  /\ j <= Len(taxids)
  /\ OnBandedPath
  /\ DOMAIN bandData[taxids[j]] = {}

\* C10: on the banded path a taxon whose parsed mapping is empty raises no
\* error: its step leaves numChromosomes, maxLength and the band sequence as
\* they were, creates no maxLength entry for it, stores an empty list under
\* it and moves on to the next taxon; every listed taxon is processed.
C10_EmptyTaxonStep ==
  AtEmptyTaxon =>
    /\ pc' = "taxa"
    /\ j' = j + 1
    /\ numChromosomes' = numChromosomes
    /\ maxLength' = maxLength
    /\ bandsArray' = bandsArray
    /\ config'.chromosomes.props[taxids[j]].list = <<>>

C10_EmptyTaxon ==
  /\ [][C10_EmptyTaxonStep]_vars
  /\ [](pc = "returned" /\ OnBandedPath =>
          /\ PathTaxa = taxids
          /\ \A t \in Range(taxids) \ TaxaWithChrs :
               /\ t \notin DOMAIN maxLength.byTaxid
               /\ config.chromosomes.props[t].list = <<>>
          /\ Len(result) = numChromosomes)

C10_Witness ==
  /\ pc = "returned"
  /\ OnBandedPath
  /\ Len(taxids) = MaxTaxids
  /\ DOMAIN bandData[taxids[1]] = {}
  /\ DOMAIN bandData[taxids[2]] # {}
  /\ result # <<>>
  /\ DOMAIN maxLength.byTaxid = {taxids[2]}

====
